---------------------------- MODULE Spec2Model ----------------------------
(***************************************************************************)
(* Funlink, fetch.py: batch retrieval of UniProt records with retry        *)
(* rounds, the compound-field transformer and the tab-separated sink.      *)
(*                                                                         *)
(* Text is modelled as a sequence of atoms.  An atom is either one of the  *)
(* separator characters (tab, newline, space, semicolon) or a run of       *)
(* characters that contains none of them ("accession", "GO:1").  The       *)
(* literals "Unique ID" and "no information" are never parsed by the       *)
(* program and are kept as one atom each.                                  *)
(*                                                                         *)
(* The output is the sequence of rows handed to the csv writer; each       *)
(* writerow and writerows call is one step.  as_completed hands main any   *)
(* finished future it has not yet taken.  A response is a status and, for  *)
(* status 200, a header line and one line per answered identifier.         *)
(* Exceptions raised by requests.get are not modelled.  A worker record    *)
(* keeps the batches it has requested (requests) and whether it took the   *)
(* header branch (wrote_header).                                           *)
(*                                                                         *)
(* funlink/run.py, the pipeline driver, is modelled on its own: the stages *)
(* are subprocesses that return a code and leave files in immediate_output.*)
(***************************************************************************)
EXTENDS Integers, Sequences, FiniteSets, TLC

VARIABLES
    uniprot_ids,      \* main: the list read from the input file
    all_missing_ids,  \* main: the working list planned into the next round
    header_written,   \* main: its local flag (workers get a copy by value)
    pc,               \* main: "start" | "plan" | "collect" | "sleep" | "done" | "error"
    round,            \* main: number of rounds planned so far
    batches,          \* main: the batches of the current round
    futures,          \* one record per batch of the round: the worker's state
    output,           \* the rows handed to the csv writer, in write order
    resolve_at,       \* the simulated service: first round an id resolves in
    call              \* harness of the pure-function specifications

mainvars == <<uniprot_ids, all_missing_ids, header_written, pc, round,
              batches, futures, output, resolve_at>>
vars == <<uniprot_ids, all_missing_ids, header_written, pc, round,
          batches, futures, output, resolve_at, call>>

-----------------------------------------------------------------------------
(* Bounds of the model *)

\* longest input list of main
MaxIds == 4
\* rounds main may plan before the model stops it
MaxRounds == 3
\* latest round in which the simulated service starts resolving an id
MaxResolveRound == 2
\* fetch.py:34 sets BATCH_SIZE = 10; the model plans batches of this size
BATCH_SIZE == 2
\* longest list and largest batch size given to the batch planner alone
MaxLen == 5
MaxB == 3
\* most entries of a generated compound value
MaxEntries == 2

\* fetch.py:35
MAX_RETRIES == 3

-----------------------------------------------------------------------------
(* Text *)

TAB == "\t"
NL == "\n"
SP == " "
SEMI == ";"
Whitespace == {TAB, NL, SP}

NoInformation == <<"no information">>
UniqueID == <<"Unique ID">>

\* F(v), with v computed once: a Python variable holds a value, it is not
\* recomputed at each use
Strict(F(_), v) == CHOOSE r \in {F(a) : a \in {v}} : TRUE

Contains(s, c) == \E i \in 1..Len(s) : s[i] = c

FirstIndex(s, c) == CHOOSE i \in 1..Len(s) : s[i] = c /\ \A j \in 1..(i-1) : s[j] # c

\* str.split(sep): every piece between separators, empty pieces included
RECURSIVE Split(_, _)
Split(s, sep) ==
    Strict(LAMBDA t :
             IF ~Contains(t, sep) THEN <<t>>
             ELSE Strict(LAMBDA i : <<SubSeq(t, 1, i-1)>> \o Split(SubSeq(t, i+1, Len(t)), sep),
                         FirstIndex(t, sep)),
           s)

\* str.split(sep, 1): at most one split
Split1(s, sep) ==
    IF ~Contains(s, sep) THEN <<s>>
    ELSE LET i == FirstIndex(s, sep)
         IN  <<SubSeq(s, 1, i-1), SubSeq(s, i+1, Len(s))>>

\* sep.join(parts)
RECURSIVE Join(_, _)
Join(parts, sep) ==
    Strict(LAMBDA p :
             IF Len(p) = 0 THEN <<>>
             ELSE IF Len(p) = 1 THEN p[1]
             ELSE p[1] \o <<sep>> \o Join(Tail(p), sep),
           parts)

RECURSIVE LStrip(_)
LStrip(s) ==
    Strict(LAMBDA t : IF Len(t) > 0 /\ t[1] \in Whitespace THEN LStrip(Tail(t)) ELSE t, s)

RECURSIVE RStrip(_)
RStrip(s) ==
    Strict(LAMBDA t : IF Len(t) > 0 /\ t[Len(t)] \in Whitespace
                      THEN RStrip(SubSeq(t, 1, Len(t)-1)) ELSE t,
           s)

\* str.strip()
Strip(s) == RStrip(LStrip(s))

ToSet(s) == {s[i] : i \in 1..Len(s)}

-----------------------------------------------------------------------------
(* BatchPlanner: the list comprehension of main *)

Min(a, b) == IF a < b THEN a ELSE b

\* range(0, n, B), as the 1-based start positions
BatchStarts(n, B) == {i \in 1..n : (i - 1) % B = 0}

BatchesOffByOne(ids, B) ==
    [k \in 1..Cardinality(BatchStarts(Len(ids), B)) |->
        SubSeq(ids, (k-1)*B + 1, Min(k*B, Len(ids)) - 1)]

\* [ids[i:i + B] for i in range(0, len(ids), B)]
Batches(ids, B) ==
    [k \in 1..Cardinality(BatchStarts(Len(ids), B)) |->
        SubSeq(ids, (k-1)*B + 1, Min(k*B, Len(ids)))]

-----------------------------------------------------------------------------
(* FieldTransformer: split_ids_from_descriptions *)

ID_FIELDS == {<<"ec">>, <<"go_p">>, <<"go_c">>, <<"go">>, <<"go_f">>, <<"go_id">>,
              <<"rhea">>, <<"keyword">>, <<"keywordid">>}

\* value if value else "no information"
OrSentinel(v) == IF v = <<>> THEN NoInformation ELSE v

\* x.split(" ")[0]
EntryId(x) == Split(x, SP)[1]

\* x.split(" ", 1)[1] if " " in x else x
EntryDesc(x) == IF Contains(x, SP) THEN Split1(x, SP)[2] ELSE x

IdsOfReversed(value) ==
    LET xs == Split(value, SEMI)
    IN  Join([k \in 1..Len(xs) |-> EntryId(xs[Len(xs) + 1 - k])], SEMI)

\* ";".join([x.split(" ")[0] for x in value.split(";")])
IdsOf(value) ==
    LET xs == Split(value, SEMI)
    IN  Join([k \in 1..Len(xs) |-> EntryId(xs[k])], SEMI)

\* ";".join([... for x in value.split(";")]) of the descriptions
DescOf(value) ==
    LET xs == Split(value, SEMI)
    IN  Join([k \in 1..Len(xs) |-> EntryDesc(xs[k])], SEMI)

IsSplit(col_name, value) == col_name \in ID_FIELDS /\ Contains(value, SEMI)

AppendNew(h, name) == IF name \in ToSet(h) THEN h ELSE Append(h, name)

\* the body of the inner loop for one (col_name, value): the values appended
\* to new_row and updated_header after it
FieldStep(acc, col_name, value) ==
    IF IsSplit(col_name, value)
    THEN [row |-> acc.row \o <<OrSentinel(IdsOf(value)), OrSentinel(DescOf(value))>>,
          header |-> IF (col_name \o <<"_id">>) \in ToSet(acc.header)
                     THEN acc.header
                     ELSE acc.header \o <<col_name \o <<"_id">>, col_name \o <<"_desc">>>>]
    ELSE [row |-> Append(acc.row, OrSentinel(value)),
          header |-> AppendNew(acc.header, col_name)]

\* the inner loop over enumerate(row); defined for Len(row) <= Len(header)
\* (a longer row raises IndexError at header[i])
RECURSIVE RowLoop(_, _, _, _)
RowLoop(acc, row, header, i) ==
    IF i > Len(row) THEN acc
    ELSE Strict(LAMBDA a : RowLoop(FieldStep(a, header[i], row[i]), row, header, i + 1), acc)

\* the outer loop over rows
RECURSIVE RowsLoop(_, _, _, _)
RowsLoop(acc, rows, header, r) ==
    IF r > Len(rows) THEN acc
    ELSE Strict(LAMBDA a :
                  Strict(LAMBDA one :
                           RowsLoop([header |-> one.header, rows |-> Append(a.rows, one.row)],
                                    rows, header, r + 1),
                         RowLoop([row |-> <<>>, header |-> a.header], rows[r], header, 1)),
                acc)

\* returns updated_header, updated_rows
split_ids_from_descriptions(rows, header) ==
    Strict(LAMBDA rs :
             Strict(LAMBDA h : RowsLoop([header |-> <<>>, rows |-> <<>>], rs, h, 1), header),
           rows)

-----------------------------------------------------------------------------
(* The simulated service behind requests.get *)

\* the identifiers of the input file, as text
IdPool == << <<"A">>, <<"B">>, <<"C">>, <<"D">>, <<"E">> >>

\* the header line of a response: the leading field, a compound field and
\* the last field of FIELDS
RawHeader == << <<"accession">>, <<"go">>, <<"ft_zn_fing">> >>

CompoundValue == <<"GO:1", SP, "processA", SEMI, "GO:2", SP, "processB">>

\* the record the service holds for an identifier: its fields after the
\* leading one
Record(id) ==
    CASE id = <<"A">> -> <<CompoundValue, <<>>>>
      [] id = <<"B">> -> << <<"GO:1", SP, "processA">>, <<"7">> >>
      [] id = <<"C">> -> << <<>>, <<>> >>
      [] id = <<"D">> -> <<CompoundValue, <<"7">>>>
      [] OTHER        -> << <<"GO:3">>, <<>> >>

RowOf(id) == <<id>> \o Record(id)

\* a 200 body: the header line and one line per answered identifier
ResponseText(answered) ==
    Join(<<Join(RawHeader, TAB)>> \o [k \in 1..Len(answered) |-> Join(RowOf(answered[k]), TAB)],
         NL) \o <<NL>>

Resolves(id, r) == resolve_at[id] # 0 /\ resolve_at[id] <= r

\* the identifiers of a batch the service answers in round r, in batch order
Answered(batch, r) == SelectSeq(batch, LAMBDA id : Resolves(id, r))

\* what requests.get may return for a batch requested in round r
ServiceResponses(batch, r) ==
    { [status |-> 200, answered |-> Answered(batch, r),
       text |-> ResponseText(Answered(batch, r))],
      [status |-> 429, answered |-> <<>>, text |-> <<>>],
      [status |-> 500, answered |-> <<>>, text |-> <<>>] }

-----------------------------------------------------------------------------
(* FetchWorker: fetch_uniprot_data *)

\* a result that is None
None == [none |-> TRUE, text |-> <<>>]
Text(t) == [none |-> FALSE, text |-> t]
\* "if result:" is false for None and for the empty string
Truthy(result) == ~result.none /\ result.text # <<>>

\* every list a set may be turned into by list(...)
Orders(S) == {s \in [1..Cardinality(S) -> S] : \A i, j \in 1..Cardinality(S) : i # j => s[i] # s[j]}

\* {line.split("\t")[0] for line in result[1:]} of response.text.strip().split("\n")
retrieved_ids(text) ==
    LET result == Split(Strip(text), NL)
    IN  {Split(result[k], TAB)[1] : k \in 2..Len(result)}

missing_ids_keep_all(uniprot_batch, text) == ToSet(uniprot_batch)

\* set(uniprot_batch) - retrieved_ids
missing_ids(uniprot_batch, text) == ToSet(uniprot_batch) \ retrieved_ids(text)

fetch_200_requeues_written(uniprot_batch, text) ==
    IF missing_ids(uniprot_batch, text) # {}
    THEN {[result |-> None, missing |-> m] : m \in Orders(missing_ids(uniprot_batch, text))}
    ELSE {[result |-> Text(text), missing |-> uniprot_batch]}

\* the values the status 200 branch may return
fetch_200(uniprot_batch, text) ==
    IF missing_ids(uniprot_batch, text) # {}
    THEN {[result |-> None, missing |-> m] : m \in Orders(missing_ids(uniprot_batch, text))}
    ELSE {[result |-> Text(text), missing |-> <<>>]}

fetch_failed_reports_nothing(uniprot_batch) == [result |-> None, missing |-> <<>>]

\* the value returned on an error status and after the last retry
fetch_failed(uniprot_batch) == [result |-> None, missing |-> uniprot_batch]

-----------------------------------------------------------------------------
(* process_batch: the parse and the rows handed to the writer *)

\* lines, raw_header, rows and the call of split_ids_from_descriptions
process_batch_format(text) ==
    LET Format(lines) ==
            LET raw_header == Split(lines[1], TAB)
                rows == [k \in 1..(Len(lines) - 1) |-> Split(lines[k + 1], TAB)]
            IN  Strict(LAMBDA fmt :
                         [header |-> <<UniqueID>> \o
                                     (IF fmt.header = <<>> THEN <<>> ELSE Tail(fmt.header)),
                          rows |-> fmt.rows],
                       split_ids_from_descriptions(rows, raw_header))
    IN  Strict(LAMBDA lines : Format(lines), Split(Strip(text), NL))

-----------------------------------------------------------------------------
(* main and the workers of a round *)

CallIdle == [fn |-> "none"]

\* the input file: a list of unique identifiers, possibly empty
Inputs == {SubSeq(IdPool, 1, n) : n \in 0..MaxIds}

Init ==
    /\ uniprot_ids \in Inputs
    /\ all_missing_ids = uniprot_ids
    /\ header_written = FALSE
    /\ pc = "start"
    /\ round = 0
    /\ batches = <<>>
    /\ futures = <<>>
    /\ output = <<>>
    /\ resolve_at \in [ToSet(uniprot_ids) -> 0..MaxResolveRound]
    /\ call = CallIdle

\* if not uniprot_ids: print the error and return; else open the output
main_start ==
    /\ pc = "start"
    /\ pc' = IF uniprot_ids = <<>> THEN "error" ELSE "plan"
    /\ UNCHANGED <<uniprot_ids, all_missing_ids, header_written, round, batches,
                   futures, output, resolve_at, call>>

SubmitFlagSet(batch, hw) ==
    [batch |-> batch, header_written |-> TRUE, st |-> "fetch", attempt |-> 0,
     response |-> [status |-> 0, answered |-> <<>>, text |-> <<>>],
     result |-> None, missing_ids |-> <<>>, taken |-> FALSE,
     requests |-> <<>>, wrote_header |-> FALSE]

\* executor.submit(process_batch, batch, writer, header_written)
Submit(batch, hw) ==
    [batch |-> batch, header_written |-> hw, st |-> "fetch", attempt |-> 0,
     response |-> [status |-> 0, answered |-> <<>>, text |-> <<>>],
     result |-> None, missing_ids |-> <<>>, taken |-> FALSE,
     requests |-> <<>>, wrote_header |-> FALSE]

\* while all_missing_ids: plan the batches and submit one worker per batch
main_plan ==
    /\ pc = "plan"
    /\ all_missing_ids # <<>>
    /\ round < MaxRounds
    /\ round' = round + 1
    /\ batches' = Batches(all_missing_ids, BATCH_SIZE)
    /\ futures' = [b \in 1..Len(batches') |-> Submit(batches'[b], header_written)]
    /\ pc' = "collect"
    /\ UNCHANGED <<uniprot_ids, all_missing_ids, header_written, output, resolve_at, call>>

\* the loop condition is false: print success, the file is closed
main_exit ==
    /\ pc = "plan"
    /\ all_missing_ids = <<>>
    /\ pc' = "done"
    /\ UNCHANGED <<uniprot_ids, all_missing_ids, header_written, round, batches,
                   futures, output, resolve_at, call>>

\* fetch_uniprot_data has returned ret
Returned(f, resp, ret) ==
    [f EXCEPT !.response = resp, !.result = ret.result, !.missing_ids = ret.missing,
              !.st = "fetched"]

fetch_uniprot_data_one_more(f, resp) ==
    LET g == [f EXCEPT !.attempt = @ + 1, !.requests = Append(@, f.batch)]
    IN  IF resp.status = 200
        THEN {Returned(g, resp, ret) : ret \in fetch_200(g.batch, resp.text)}
        ELSE IF resp.status = 429
        THEN {IF g.attempt <= MAX_RETRIES
              THEN [g EXCEPT !.response = resp]
              ELSE Returned(g, resp, fetch_failed(g.batch))}
        ELSE {Returned(g, resp, fetch_failed(g.batch))}

\* one pass of the retry loop of fetch_uniprot_data on the response resp:
\* the states the worker f may be in after it
fetch_uniprot_data(f, resp) ==
    LET g == [f EXCEPT !.attempt = @ + 1, !.requests = Append(@, f.batch)]
    IN  IF resp.status = 200
        THEN {Returned(g, resp, ret) : ret \in fetch_200(g.batch, resp.text)}
        ELSE IF resp.status = 429
        THEN {IF g.attempt < MAX_RETRIES
              THEN [g EXCEPT !.response = resp]
              ELSE Returned(g, resp, fetch_failed(g.batch))}
        ELSE {Returned(g, resp, fetch_failed(g.batch))}

\* "if result:" is false: process_batch returns missing_ids, header_written at once
SkipIfNone(f) == IF f.st = "fetched" /\ ~Truthy(f.result) THEN [f EXCEPT !.st = "done"] ELSE f

\* result, missing_ids = fetch_uniprot_data(uniprot_batch): one request of the worker
process_batch_fetch(b) ==
    /\ pc = "collect"
    /\ b \in DOMAIN futures
    /\ futures[b].st = "fetch"
    /\ \E resp \in ServiceResponses(futures[b].batch, round) :
         \E f \in fetch_uniprot_data(futures[b], resp) :
            futures' = [futures EXCEPT ![b] = SkipIfNone(f)]
    /\ UNCHANGED <<uniprot_ids, all_missing_ids, header_written, pc, round, batches,
                   output, resolve_at, call>>

\* if not header_written: writer.writerow(...); header_written = True
process_batch_header(b) ==
    /\ b \in DOMAIN futures
    /\ futures[b].st = "fetched"
    /\ IF ~futures[b].header_written
       THEN /\ output' = Append(output, process_batch_format(futures[b].result.text).header)
            /\ futures' = [futures EXCEPT ![b].header_written = TRUE, ![b].st = "rows",
                                           ![b].wrote_header = TRUE]
       ELSE /\ output' = output
            /\ futures' = [futures EXCEPT ![b].st = "rows"]
    /\ UNCHANGED <<uniprot_ids, all_missing_ids, header_written, pc, round, batches,
                   resolve_at, call>>

\* writer.writerows(formatted_rows); return missing_ids, header_written
process_batch_rows(b) ==
    /\ b \in DOMAIN futures
    /\ futures[b].st = "rows"
    /\ output' = output \o process_batch_format(futures[b].result.text).rows
    /\ futures' = [futures EXCEPT ![b].st = "done"]
    /\ UNCHANGED <<uniprot_ids, all_missing_ids, header_written, pc, round, batches,
                   resolve_at, call>>

AnyTaken(fs) == \E b \in DOMAIN fs : fs[b].taken

\* the as_completed loop has handed over every future of the round
AllTaken(fs) == \A b \in DOMAIN fs : fs[b].taken

\* for future in as_completed(futures): take the result of a finished worker
main_collect(b) ==
    /\ pc = "collect"
    /\ b \in DOMAIN futures
    /\ futures[b].st = "done"
    /\ ~futures[b].taken
    /\ all_missing_ids' = futures[b].missing_ids
    /\ header_written' = futures[b].header_written
    /\ futures' = [futures EXCEPT ![b].taken = TRUE]
    /\ pc' = IF AllTaken(futures') THEN "sleep" ELSE "collect"
    /\ UNCHANGED <<uniprot_ids, round, batches, output, resolve_at, call>>

\* the executor has shut down; time.sleep(1), back to the loop condition
main_sleep ==
    /\ pc = "sleep"
    /\ pc' = "plan"
    /\ UNCHANGED <<uniprot_ids, all_missing_ids, header_written, round, batches,
                   futures, output, resolve_at, call>>

Workers == 1..((MaxIds + BATCH_SIZE - 1) \div BATCH_SIZE)

Next ==
    \/ main_start
    \/ main_plan
    \/ main_exit
    \/ main_sleep
    \/ \E b \in Workers : process_batch_fetch(b)
    \/ \E b \in Workers : process_batch_header(b)
    \/ \E b \in Workers : process_batch_rows(b)
    \/ \E b \in Workers : main_collect(b)

Spec == Init /\ [][Next]_vars

-----------------------------------------------------------------------------
(* main against a service that settles: it resolves every identifier by     *)
(* round MaxResolveRound and answers every request of a later round with a  *)
(* complete 200.  MaxRounds exceeds MaxResolveRound, so a settled round is  *)
(* within the rounds of the model.  Every thread that can take a step       *)
(* eventually takes one.                                                    *)

SettlesAfter == MaxResolveRound

\* what requests.get may return for a batch requested in round r
SettledResponses(batch, r) ==
    IF r > SettlesAfter
    THEN {resp \in ServiceResponses(batch, r) : resp.status = 200}
    ELSE ServiceResponses(batch, r)

InitLive ==
    /\ Init
    /\ \A id \in ToSet(uniprot_ids) : resolve_at[id] # 0

\* result, missing_ids = fetch_uniprot_data(uniprot_batch): one request of the worker
process_batch_fetch_settled(b) ==
    /\ pc = "collect"
    /\ b \in DOMAIN futures
    /\ futures[b].st = "fetch"
    /\ \E resp \in SettledResponses(futures[b].batch, round) :
         \E f \in fetch_uniprot_data(futures[b], resp) :
            futures' = [futures EXCEPT ![b] = SkipIfNone(f)]
    /\ UNCHANGED <<uniprot_ids, all_missing_ids, header_written, pc, round, batches,
                   output, resolve_at, call>>

\* the steps of the main thread
MainStep ==
    \/ main_start
    \/ main_plan
    \/ main_exit
    \/ main_sleep
    \/ \E b \in Workers : main_collect(b)

\* the steps of the worker thread of batch b
WorkerStep(b) ==
    \/ process_batch_fetch_settled(b)
    \/ process_batch_header(b)
    \/ process_batch_rows(b)

NextLive ==
    \/ MainStep
    \/ \E b \in Workers : WorkerStep(b)

SpecLive ==
    /\ InitLive
    /\ [][NextLive]_vars
    /\ WF_vars(MainStep)
    /\ \A b \in Workers : WF_vars(WorkerStep(b))

-----------------------------------------------------------------------------
(* The pure functions alone: each specification draws the arguments of one   *)
(* function in its initial state and applies the function in its one action. *)

MainIdle ==
    /\ uniprot_ids = <<>>
    /\ all_missing_ids = <<>>
    /\ header_written = FALSE
    /\ pc = "idle"
    /\ round = 0
    /\ batches = <<>>
    /\ futures = <<>>
    /\ output = <<>>
    /\ resolve_at = <<>>

RECURSIVE SeqsUpTo(_, _)
SeqsUpTo(S, n) == IF n = 0 THEN {<<>>} ELSE SeqsUpTo(S, n - 1) \cup [1..n -> S]

(* BatchPlanner *)

InitPlan ==
    /\ MainIdle
    /\ \E ids \in SeqsUpTo({IdPool[1], IdPool[2]}, MaxLen), B \in 1..MaxB :
         call = [fn |-> "plan", st |-> "call", ids |-> ids, B |-> B, batches |-> <<>>]

plan_call ==
    /\ call.fn = "plan"
    /\ call.st = "call"
    /\ call' = [call EXCEPT !.st = "ret", !.batches = Batches(call.ids, call.B)]
    /\ UNCHANGED mainvars

NextPlan == plan_call

SpecPlan == InitPlan /\ [][NextPlan]_vars

(* fetch_uniprot_data against any response *)

\* the non-empty lists of distinct identifiers of at most n of the first m
DistinctSeqs(m, n) ==
    {s \in SeqsUpTo(ToSet(SubSeq(IdPool, 1, m)), n) :
        \A i, j \in 1..Len(s) : i # j => s[i] # s[j]}

\* any response: any status, and a 200 body with rows for any identifiers
AnyResponses ==
    {[status |-> 200, answered |-> a, text |-> ResponseText(a)] : a \in DistinctSeqs(MaxIds, MaxIds)}
    \cup {[status |-> c, answered |-> <<>>, text |-> <<>>] : c \in {429, 404, 500}}

InitFetch ==
    /\ MainIdle
    /\ \E batch \in DistinctSeqs(MaxIds, BATCH_SIZE) \ {<<>>} :
         call = [fn |-> "fetch", f |-> Submit(batch, FALSE)]

fetch_call ==
    /\ call.fn = "fetch"
    /\ call.f.st = "fetch"
    /\ \E resp \in AnyResponses :
         \E f \in fetch_uniprot_data(call.f, resp) :
            call' = [call EXCEPT !.f = f]
    /\ UNCHANGED mainvars

NextFetch == fetch_call

SpecFetch == InitFetch /\ [][NextFetch]_vars

(* split_ids_from_descriptions *)

EntryIds == {<<"GO:1">>, <<"GO:2">>}
EntryDescs == {<<"processA">>, <<"processB">>, <<"a", SP, "b">>}

\* an entry "<id> <description>", or "<id>" alone
Entries ==
    {[id |-> i, has_desc |-> TRUE, desc |-> d] : i \in EntryIds, d \in EntryDescs}
    \cup {[id |-> i, has_desc |-> FALSE, desc |-> <<>>] : i \in EntryIds}

EntryText(e) == IF e.has_desc THEN e.id \o <<SP>> \o e.desc ELSE e.id

\* the entries joined by ';'
ValueOf(entries) == Join([k \in 1..Len(entries) |-> EntryText(entries[k])], SEMI)

PlainContextRow == <<IdPool[2], <<"GO:3", SP, "x">>, <<"7">>>>
CompoundContextRow == <<IdPool[2], CompoundValue, <<"7">>>>

\* the rows of a call: the target row, alone or beside a context row
RowsOf(target, ctx) ==
    CASE ctx = "alone"          -> <<target>>
      [] ctx = "after_plain"    -> <<PlainContextRow, target>>
      [] ctx = "after_compound" -> <<CompoundContextRow, target>>
      [] OTHER                  -> <<target, PlainContextRow>>

TargetIndex(ctx) == IF ctx \in {"after_plain", "after_compound"} THEN 2 ELSE 1

InitSplit ==
    /\ MainIdle
    /\ \E entries \in SeqsUpTo(Entries, MaxEntries), in_id_field \in BOOLEAN,
          other \in {<<>>, <<"7">>},
          ctx \in {"alone", "after_plain", "after_compound", "before_plain"} :
         LET target == IF in_id_field THEN <<IdPool[1], ValueOf(entries), other>>
                       ELSE <<IdPool[1], other, ValueOf(entries)>>
         IN  call = [fn |-> "split", st |-> "call", entries |-> entries,
                     in_id_field |-> in_id_field, ctx |-> ctx,
                     rows |-> RowsOf(target, ctx), header |-> RawHeader,
                     updated_header |-> <<>>, updated_rows |-> <<>>]

split_call ==
    /\ call.fn = "split"
    /\ call.st = "call"
    /\ LET ret == split_ids_from_descriptions(call.rows, call.header)
       IN  call' = [call EXCEPT !.st = "ret", !.updated_header = ret.header,
                                !.updated_rows = ret.rows]
    /\ UNCHANGED mainvars

NextSplit == split_call

SpecSplit == InitSplit /\ [][NextSplit]_vars

-----------------------------------------------------------------------------
(* run.py: the pipeline driver.  Each stage is a subprocess given its files   *)
(* on the command line; a file is its name inside immediate_output.  The      *)
(* directory is created with exist_ok, so it may hold any of the files        *)
(* before the run.                                                            *)

ImmediateFiles == {"blast_results.tsv", "merged_results.tsv", "uniprot_ids.txt",
                   "uniprot_map.txt", "uniprot_map.tsv", "draft_db.tsv"}

\* the commands: the script, the files of immediate_output the stage is given
\* to read, and the files it is given to write, in the order it writes them
uniq_id_command ==
    [script |-> "uniq_id.py", reads |-> {},
     writes |-> <<"blast_results.tsv", "merged_results.tsv", "uniprot_ids.txt">>]

fetch_command ==
    [script |-> "fetch.py", reads |-> {"uniprot_ids.txt"}, writes |-> <<"uniprot_map.txt">>]

merge_command ==
    [script |-> "merge.py", reads |-> {"merged_results.tsv", "uniprot_map.tsv"},
     writes |-> <<"draft_db.tsv">>]

storage_command ==
    [script |-> "storage.py", reads |-> {"draft_db.tsv"}, writes |-> <<>>]

\* python cannot open the script under program_path
NoScript(fs) == [returncode |-> 2, fs |-> fs]

\* uniq_id.py: main catches every exception and returns, so the stage exits
\* with 0 after having written any prefix of its files
uniq_id_py(cmd, fs) ==
    {[returncode |-> 0, fs |-> fs \cup ToSet(SubSeq(cmd.writes, 1, k))] : k \in 0..Len(cmd.writes)}
        \cup {NoScript(fs)}

\* fetch.py: open(input_file) raises when the file is absent; the output file
\* is opened before the rounds, and an exception of a round ends the stage
fetch_py(cmd, fs) ==
    IF ~(cmd.reads \subseteq fs)
    THEN {[returncode |-> 1, fs |-> fs], NoScript(fs)}
    ELSE {[returncode |-> 0, fs |-> fs \cup ToSet(cmd.writes)],
          [returncode |-> 1, fs |-> fs \cup ToSet(cmd.writes)],
          NoScript(fs)}

\* merge.py: read_csv and open raise when a file is absent; exit(1) when the
\* column sseqid is missing; the output is written last
merge_py(cmd, fs) ==
    IF ~(cmd.reads \subseteq fs)
    THEN {[returncode |-> 1, fs |-> fs], NoScript(fs)}
    ELSE {[returncode |-> 0, fs |-> fs \cup ToSet(cmd.writes)],
          [returncode |-> 1, fs |-> fs],
          NoScript(fs)}

\* storage.py: process_file reports an absent file and returns; the database
\* lives outside immediate_output
storage_py(cmd, fs) ==
    {[returncode |-> 0, fs |-> fs], [returncode |-> 1, fs |-> fs], NoScript(fs)}

\* the driver before its first stage
InitRun ==
    /\ MainIdle
    /\ \E fs \in SUBSET ImmediateFiles :
         call = [fn |-> "run", pc |-> "uniq_id", fs |-> fs, log |-> <<>>]

\* subprocess.run(cmd, check=True) has returned out: CalledProcessError ends
\* the driver on a non-zero return code, otherwise it goes on to the stage nxt
subprocess_run(cmd, out, nxt) ==
    call' = [call EXCEPT !.fs = out.fs,
                         !.log = Append(@, [cmd |-> cmd, returncode |-> out.returncode]),
                         !.pc = IF out.returncode = 0 THEN nxt ELSE "raised"]

run_uniq_id ==
    /\ call.fn = "run"
    /\ call.pc = "uniq_id"
    /\ \E out \in uniq_id_py(uniq_id_command, call.fs) :
         subprocess_run(uniq_id_command, out, "fetch")
    /\ UNCHANGED mainvars

run_fetch ==
    /\ call.fn = "run"
    /\ call.pc = "fetch"
    /\ \E out \in fetch_py(fetch_command, call.fs) :
         subprocess_run(fetch_command, out, "merge")
    /\ UNCHANGED mainvars

run_merge ==
    /\ call.fn = "run"
    /\ call.pc = "merge"
    /\ \E out \in merge_py(merge_command, call.fs) :
         subprocess_run(merge_command, out, "storage")
    /\ UNCHANGED mainvars

run_storage ==
    /\ call.fn = "run"
    /\ call.pc = "storage"
    /\ \E out \in storage_py(storage_command, call.fs) :
         subprocess_run(storage_command, out, "end")
    /\ UNCHANGED mainvars

NextRun == run_uniq_id \/ run_fetch \/ run_merge \/ run_storage

SpecRun == InitRun /\ [][NextRun]_vars

-----------------------------------------------------------------------------
(* Properties *)

IsHeaderLine(line) == line # <<>> /\ line[1] = UniqueID
HeaderLines == {i \in DOMAIN output : IsHeaderLine(output[i])}
DataLines == {i \in DOMAIN output : ~IsHeaderLine(output[i])}
\* the data rows of the output whose leading field is id
RowsFor(id) == {i \in DataLines : output[i] # <<>> /\ output[i][1] = id}
WrittenIds == {id \in ToSet(uniprot_ids) : RowsFor(id) # {}}
InputIds == ToSet(uniprot_ids)
\* main is between two rounds: every worker of the last round was joined
RoundBoundary == round > 0 /\ pc \in {"sleep", "plan", "done"}

\* C1: whenever the output holds a line, it holds the header line exactly
\* once, whatever the rounds, the batches and the interleaving of the workers.
C1_HeaderExactlyOnce == output # <<>> => Cardinality(HeaderLines) = 1

\* C2: with a service that resolves every identifier within a bounded number
\* of rounds, when the loop of main has terminated every input identifier has
\* exactly one row in the output.
C2_EveryIdOneRowAtExit ==
    (pc = "done" /\ \A id \in InputIds : resolve_at[id] # 0)
        => \A id \in InputIds : Cardinality(RowsFor(id)) = 1

\* C3: after the join of a round the working list is, as a set, the union of
\* the unresolved lists returned by all the batches of the round.
C3_WorkingSetIsUnion ==
    RoundBoundary =>
        ToSet(all_missing_ids) = UNION {ToSet(futures[b].missing_ids) : b \in DOMAIN futures}

\* C4: at every round boundary every input identifier is written to the
\* output or is in the working list of the next round.
C4_ResolvedOrQueued ==
    RoundBoundary => \A id \in InputIds : id \in WrittenIds \/ id \in ToSet(all_missing_ids)

\* C5: an identifier whose row is written is in no batch that may still be
\* requested and in no working list a later round is planned from, and no
\* identifier has more than one row in the output.
C5_WrittenNeverRequestedAgain ==
    /\ \A b \in DOMAIN futures :
          futures[b].st = "fetch" => ToSet(futures[b].batch) \cap WrittenIds = {}
    /\ RoundBoundary => ToSet(all_missing_ids) \cap WrittenIds = {}
    /\ \A id \in InputIds : Cardinality(RowsFor(id)) <= 1

\* C5 witness: a row was written in an earlier round and a worker of a later
\* round is about to send its request.
C5_Witness ==
    /\ round >= 2
    /\ WrittenIds # {}
    /\ \E b \in DOMAIN futures : futures[b].st = "fetch"

\* the leading-field keys a response returns; a response that is not a
\* success returns none
ReturnedKeys(resp) == IF resp.status = 200 THEN ToSet(resp.answered) ELSE {}

\* C6: once fetch_uniprot_data has returned, its unresolved list is, as a
\* set, the requested identifiers minus the keys of the rows of the response.
C6_UnresolvedIsRequestedMinusReturned ==
    (call.fn = "fetch" /\ call.f.st = "fetched")
        => ToSet(call.f.missing_ids) = ToSet(call.f.batch) \ ReturnedKeys(call.f.response)

\* C6 witness: a success response that answers some of the batch, not all of
\* it, and a row for an identifier that was not requested.
C6_Witness ==
    /\ call.fn = "fetch"
    /\ call.f.st = "fetched"
    /\ call.f.response.status = 200
    /\ ToSet(call.f.batch) \cap ReturnedKeys(call.f.response) # {}
    /\ ToSet(call.f.batch) \ ReturnedKeys(call.f.response) # {}
    /\ ReturnedKeys(call.f.response) \ ToSet(call.f.batch) # {}

RECURSIVE Concat(_)
Concat(ss) == IF ss = <<>> THEN <<>> ELSE ss[1] \o Concat(Tail(ss))

\* ceil(n / b)
CeilDiv(n, b) == (n + b - 1) \div b

\* C7: the planned batches number ceil(N/B), their concatenation is the
\* working list, every batch has at most B identifiers, only the last may
\* have fewer, and the empty list gives no batch.
C7_BatchPlan ==
    (call.fn = "plan" /\ call.st = "ret") =>
        /\ Len(call.batches) = CeilDiv(Len(call.ids), call.B)
        /\ Concat(call.batches) = call.ids
        /\ \A k \in 1..Len(call.batches) : Len(call.batches[k]) <= call.B
        /\ \A k \in 1..(Len(call.batches) - 1) : Len(call.batches[k]) = call.B
        /\ (call.ids = <<>> => call.batches = <<>>)

\* C7 witness: several batches were planned and the last one is short.
C7_Witness ==
    /\ call.fn = "plan"
    /\ call.st = "ret"
    /\ Len(call.batches) >= 3
    /\ Len(call.batches[Len(call.batches)]) < call.B

\* the target row of a call of split_ids_from_descriptions, as returned
TargetRow == call.updated_rows[TargetIndex(call.ctx)]
\* the ids of the generated entries joined by ';'
EntryIdsJoined == Join([k \in 1..Len(call.entries) |-> call.entries[k].id], SEMI)
\* the descriptions of the generated entries joined by ';'
EntryDescsJoined == Join([k \in 1..Len(call.entries) |-> call.entries[k].desc], SEMI)
\* the descriptions joined by ';', the sentinel standing for a missing one
EntryDescsOrSentinel ==
    Join([k \in 1..Len(call.entries) |->
            IF call.entries[k].has_desc THEN call.entries[k].desc ELSE NoInformation], SEMI)
\* positions of a column name in the returned header
HeaderIndex(name) == {k \in DOMAIN call.updated_header : call.updated_header[k] = name}
SplitReturned == call.fn = "split" /\ call.st = "ret"

\* C8: for a compound field of two or more entries "<id> <description>"
\* joined by ';' the returned row holds, in place of the field, the ids joined
\* by ';' and then the descriptions joined by ';', in entry order; the header
\* holds <field>_id followed by <field>_desc, at the positions of the two
\* values when every row of the call has that form.
C8_CompoundSplit ==
    (/\ SplitReturned
     /\ call.in_id_field
     /\ Len(call.entries) >= 2
     /\ \A k \in 1..Len(call.entries) : call.entries[k].has_desc)
        => /\ Len(TargetRow) = 4
           /\ TargetRow[2] = EntryIdsJoined
           /\ TargetRow[3] = EntryDescsJoined
           /\ \E k \in HeaderIndex(<<"go", "_id">>) : (k + 1) \in HeaderIndex(<<"go", "_desc">>)
           /\ call.ctx \in {"alone", "after_compound"}
                 => call.updated_header = << <<"accession">>, <<"go", "_id">>,
                                             <<"go", "_desc">>, <<"ft_zn_fing">> >>

\* C8 witness: the value "GO:1 processA;GO:2 processB" was split.
C8_Witness ==
    /\ SplitReturned
    /\ call.in_id_field
    /\ call.rows[TargetIndex(call.ctx)][2] = CompoundValue
    /\ call.ctx = "alone"

\* C9: for a compound field with an entry that has no description, the id
\* column holds the ids as they are and the description column holds the
\* sentinel in the place of that entry.
C9_MissingDescriptionIsSentinel ==
    (/\ SplitReturned
     /\ call.in_id_field
     /\ Len(call.entries) >= 2
     /\ \E k \in 1..Len(call.entries) : ~call.entries[k].has_desc)
        => /\ TargetRow[2] = EntryIdsJoined
           /\ TargetRow[3] = EntryDescsOrSentinel

\* the fields of the record of id that are empty in the response
EmptyFields(id) == {k \in 1..Len(RowOf(id)) : RowOf(id)[k] = <<>>}
SentinelFields(row) == {k \in 1..Len(row) : row[k] = NoInformation}

\* C10: every field that is empty in the response is written as
\* "no information": a written data row has no empty field and as many
\* sentinel fields as its record has empty fields.
C10_EmptyFieldsWrittenAsSentinel ==
    \A i \in DataLines :
        /\ \A k \in 1..Len(output[i]) : output[i][k] # <<>>
        /\ Cardinality(SentinelFields(output[i])) = Cardinality(EmptyFields(output[i][1]))

\* C11: a worker that has returned has either written the row of every
\* identifier of its batch or reported every identifier of its batch as
\* unresolved; no identifier of the batch is neither written nor reported.
C11_BatchWrittenOrRequeued ==
    \A b \in DOMAIN futures :
        futures[b].st = "done" =>
            \/ ToSet(futures[b].batch) \subseteq WrittenIds
            \/ ToSet(futures[b].batch) \subseteq ToSet(futures[b].missing_ids)

\* C12: an invocation of fetch_uniprot_data sends at most MAX_RETRIES
\* requests, all for its batch, and sends another one only after a 429; a 200
\* is processed normally whatever the number of 429s before it, and the
\* MAX_RETRIES-th 429 ends the invocation as a failure.
C12_BoundedRetries ==
    call.fn = "fetch" =>
        LET f == call.f
        IN  /\ Len(f.requests) = f.attempt
            /\ f.attempt <= MAX_RETRIES
            /\ \A k \in 1..Len(f.requests) : f.requests[k] = f.batch
            /\ f.st = "fetch" => f.attempt < MAX_RETRIES
            /\ (f.st = "fetch" /\ f.attempt >= 1) => f.response.status = 429
            /\ (f.st = "fetched" /\ f.response.status = 200) =>
                  /\ ToSet(f.missing_ids) = ToSet(f.batch) \ ReturnedKeys(f.response)
                  /\ Truthy(f.result) <=> f.missing_ids = <<>>
                  /\ Truthy(f.result) => f.result.text = f.response.text
            /\ (f.attempt = MAX_RETRIES /\ f.response.status = 429) =>
                  /\ f.st = "fetched"
                  /\ f.result = None
                  /\ f.missing_ids = f.batch

\* C12 witness: a complete 200 arrived as the answer to the last request
\* allowed, after 429s.
C12_Witness ==
    /\ call.fn = "fetch"
    /\ call.f.attempt = MAX_RETRIES
    /\ call.f.response.status = 200
    /\ Truthy(call.f.result)

\* the invocation of fetch_uniprot_data of a worker ended in failure
Failed(f) == f.st # "fetch" /\ f.response.status # 200

\* C13: a worker whose batch ends in failure (an error status, at once, or
\* the last 429) returns in that step with the whole batch as unresolved,
\* without writing to the output and with the header flag it was given.
C13_FailureLeavesOutputAlone ==
    [][\A b \in DOMAIN futures' :
          /\ futures'[b].st = "fetch" => futures'[b].response.status \in {0, 429}
          /\ Failed(futures'[b]) =>
                /\ futures'[b].st = "done"
                /\ futures'[b].result = None
                /\ futures'[b].missing_ids = futures'[b].batch
                /\ ~futures'[b].wrote_header
                /\ (b \in DOMAIN futures /\ futures[b].st = "fetch") =>
                      /\ output' = output
                      /\ futures'[b].header_written = futures[b].header_written
                      /\ header_written' = header_written]_vars

\* C13 witness: a worker ended in failure on its last 429 while the output
\* already holds lines of a sibling.
C13_Witness ==
    \E b \in DOMAIN futures :
        /\ Failed(futures[b])
        /\ futures[b].response.status = 429
        /\ output # <<>>

AllFinished == \A b \in DOMAIN futures : futures[b].st = "done" /\ futures[b].taken

\* C14: the batches of the next round are planned, and so its requests sent,
\* only when every worker of the round has finished; main sleeps only after
\* every worker of the round has finished, and a later round starts only from
\* that sleep.
C14_RoundBarrier ==
    [][/\ round' # round => AllFinished
       /\ (pc' = "sleep" /\ pc # "sleep") => \A b \in DOMAIN futures' : futures'[b].st = "done"
       /\ pc = "sleep" => (pc' = "plan" /\ round' = round /\ futures' = futures)
       /\ (pc' = "plan" /\ pc # "plan" /\ round > 0) => pc = "sleep"
       /\ (\E b \in DOMAIN futures \cap DOMAIN futures' :
              futures'[b].attempt > futures[b].attempt) => (pc = "collect" /\ round' = round)]_vars

\* C14 witness: the second round was planned from two finished workers of
\* the first and one of its workers has sent a request.
C14_Witness ==
    /\ round = 2
    /\ Len(uniprot_ids) > BATCH_SIZE
    /\ \E b \in DOMAIN futures : futures[b].attempt >= 1

\* C15: when the service never resolves some input identifier, main never
\* leaves its loop: it never reaches the state after the loop.
C15_NoExitWhileUnresolvable ==
    (\E id \in InputIds : resolve_at[id] = 0) => pc # "done"

\* C16: with a service that answers every batch completely from some round
\* on, and every thread scheduled fairly, main eventually leaves its loop
\* with an empty working list.
C16_EventuallyConverged ==
    (uniprot_ids # <<>>) => <>(pc = "done" /\ all_missing_ids = <<>>)

\* C16 witness: main left the loop after a round the service had settled in,
\* having had failures before.
C16_Witness ==
    /\ pc = "done"
    /\ round > SettlesAfter

\* the value the record of id holds for the raw column col of a response
RawValue(id, col) == RowOf(id)[CHOOSE k \in 1..Len(RawHeader) : RawHeader[k] = col]

\* the value that belongs to id under the output column col
ColumnValue(id, col) ==
    IF col = UniqueID THEN id
    ELSE IF \E raw \in ToSet(RawHeader) : col = raw \o <<"_id">>
    THEN OrSentinel(IdsOf(RawValue(id, SubSeq(col, 1, Len(col) - 1))))
    ELSE IF \E raw \in ToSet(RawHeader) : col = raw \o <<"_desc">>
    THEN OrSentinel(DescOf(RawValue(id, SubSeq(col, 1, Len(col) - 1))))
    ELSE OrSentinel(RawValue(id, col))

Conforms(row, header) ==
    /\ Len(row) = Len(header)
    /\ \A k \in 1..Len(row) : row[k] = ColumnValue(row[1], header[k])

\* C17: every data row of the output conforms to the header written to it:
\* it has as many fields as the header has columns and its i-th value is the
\* value of its identifier under the header's i-th column.
C17_RowsConformToHeader ==
    \A h \in HeaderLines : \A i \in DataLines : Conforms(output[i], output[h])

\* the working list main would hold after the round had the future b been
\* the last one handed over by as_completed
WorkingSetIfLast(b) == ToSet(futures[b].missing_ids)

\* C18: the identifiers requested in the next round do not depend on the
\* order in which the workers of a round complete.  The answers of the service
\* fix what every worker returns, and the order of completion only chooses
\* which future main takes last; so the claim holds exactly when, at the end
\* of a round, the working list is the one main would hold whichever future
\* had been taken last.
C18_CompletionOrderIrrelevant ==
    pc = "sleep" =>
        \A b \in DOMAIN futures : ToSet(all_missing_ids) = WorkingSetIfLast(b)

\* the worker b is inside its write block: it has passed the check of the
\* header flag (and the header write, if any) and has not yet written its rows
InWriteBlock(b) == futures[b].st = "rows"

\* C19: the write block of a worker (the check of the header flag, the header
\* and the rows) is not interleaved with the write block of a sibling: at
\* most one worker is inside its block at any time.
C19_WriteBlocksExclusive ==
    \A b1, b2 \in DOMAIN futures : InWriteBlock(b1) /\ InWriteBlock(b2) => b1 = b2

\* C20: whenever the output holds a line, its first line is a header line
\* (leading column "Unique ID"): no data row is written before the first
\* header, in any round and under any interleaving of the workers.
C20_FirstLineIsHeader == output # <<>> => IsHeaderLine(output[1])

\* C20 witness: a worker of a round after the first has written its block,
\* and the output holds data rows and the blocks of several workers.
C20_Witness ==
    /\ round > 1
    /\ \E b \in DOMAIN futures : futures[b].st = "done" /\ Truthy(futures[b].result)
    /\ DataLines # {}
    /\ Cardinality(HeaderLines) > 1
    /\ IsHeaderLine(output[1])

Pipeline == <<uniq_id_command, fetch_command, merge_command, storage_command>>

\* the stages were launched in the order of the pipeline, each after the
\* stage before it had returned 0
StagesInOrder ==
    /\ Len(call.log) <= Len(Pipeline)
    /\ \A i \in 1..Len(call.log) :
          /\ call.log[i].cmd.script = Pipeline[i].script
          /\ i < Len(call.log) => call.log[i].returncode = 0

\* the files the stages launched before the i-th were given to write
WrittenBefore(i) == UNION {ToSet(call.log[j].cmd.writes) : j \in 1..(i - 1)}

\* C21: the stages of run.py run in the order uniq_id, fetch, merge, storage,
\* each only after the one before it exited with 0, and every file of
\* immediate_output a stage is given to read is a file an earlier stage was
\* given to write; so the map file merge reads is the one fetch wrote.
C21_StagesChained ==
    /\ StagesInOrder
    /\ \A i \in 1..Len(call.log) : call.log[i].cmd.reads \subseteq WrittenBefore(i)

=============================================================================
